---- MODULE Spec2Model ----
(***************************************************************************)
(* pm2-health: the Health class of src/Health.ts (config merge, bus        *)
(* handlers, hold window, alert gate, metric poll cycle) with the mail     *)
(* collaborator of src/Mail.js and the history store (Snapshot).           *)
(***************************************************************************)
EXTENDS Integers, Sequences, FiniteSets, TLC

(***************************************************************************)
(* Bounds of the model.                                                    *)
(***************************************************************************)
MaxValue == 3
MaxTime == 7
MaxPayloadKeys == 2
MaxInFlight == 1

(***************************************************************************)
(* Program constants.                                                      *)
(***************************************************************************)
MERTIC_INTERVAL_S == 60
HOLD_PERIOD_M == 30
MiB == 1048576
CONFIG_KEYS == <<"events", "metric", "exceptions", "messages", "messageExcludeExps", "appsExcluded", "metricIntervalS", "addLogs">>
OwnOps == {"<", ">", "=", "<=", ">=", "!="}
SelfName == "pm2-health"

(***************************************************************************)
(* JavaScript scalar values: metric values, targets, results of OP.        *)
(***************************************************************************)
SV(t, n, s) == [t |-> t, n |-> n, s |-> s]
Undefined == SV("undef", 0, "")
NaN == SV("nan", 0, "")
Num(n) == SV("num", n, "")
Str(s) == SV("str", 0, s)
Bool(b) == SV("bool", IF b THEN 1 ELSE 0, "")
ObjectString == Str("[object Object]")

\* Number(s) for the strings of the model: only a complete numeric literal converts
StrToNumber(s) ==
  CASE s = "3" -> Num(3)
    [] s = "" -> Num(0)
    [] OTHER -> NaN

\* Number.parseFloat(s) for the strings of the model: the longest numeric prefix
ParseFloatStr(s) ==
  CASE s = "3" -> Num(3)
    [] s = "2x" -> Num(2)
    [] OTHER -> NaN

\* code-unit order of the strings of the model
StrRank(s) ==
  CASE s = "" -> 0
    [] s = "2x" -> 1
    [] s = "3" -> 2
    [] s = "[object Object]" -> 3
    [] s = "v2" -> 4
    [] s = "v3" -> 5
    [] OTHER -> 6

ToNumber(v) ==
  CASE v.t = "num" -> v
    [] v.t = "str" -> StrToNumber(v.s)
    [] v.t = "bool" -> Num(v.n)
    [] OTHER -> NaN

ParseFloat(v) ==
  CASE v.t = "num" -> v
    [] v.t = "str" -> ParseFloatStr(v.s)
    [] OTHER -> NaN

\* a < b
JsLt(a, b) ==
  IF a.t = "str" /\ b.t = "str" THEN StrRank(a.s) < StrRank(b.s)
  ELSE LET x == ToNumber(a)
           y == ToNumber(b)
       IN x.t = "num" /\ y.t = "num" /\ x.n < y.n

\* a <= b
JsLe(a, b) ==
  IF a.t = "str" /\ b.t = "str" THEN StrRank(a.s) <= StrRank(b.s)
  ELSE LET x == ToNumber(a)
           y == ToNumber(b)
       IN x.t = "num" /\ y.t = "num" /\ x.n <= y.n

\* a === b
JsStrictEq(a, b) == a.t = b.t /\ a.t # "nan" /\ a = b

\* a == b
JsLooseEq(a, b) ==
  IF a.t = b.t THEN JsStrictEq(a, b)
  ELSE IF a.t = "undef" \/ b.t = "undef" THEN FALSE
  ELSE LET x == ToNumber(a)
           y == ToNumber(b)
       IN x.t = "num" /\ y.t = "num" /\ x.n = y.n

\* truthiness of a scalar
JsTruthy(v) ==
  CASE v.t = "num" -> v.n # 0
    [] v.t = "str" -> v.s # ""
    [] v.t = "bool" -> v.n = 1
    [] OTHER -> FALSE

(***************************************************************************)
(* OP table; `op in OP` also finds the properties OP inherits.             *)
(***************************************************************************)
OpIn(op) == op \in OwnOps \/ op = "toString"

\* a table whose >= is strict
OPStrictGe(op, a, b) ==
  CASE op = "<" -> Bool(JsLt(a, b))
    [] op = ">" -> Bool(JsLt(b, a))
    [] op = "=" -> Bool(JsStrictEq(a, b))
    [] op = "<=" -> Bool(JsLe(a, b))
    [] op = ">=" -> Bool(JsLt(b, a))
    [] op = "!=" -> Bool(~JsLooseEq(a, b))
    [] OTHER -> ObjectString

OP(op, a, b) ==
  CASE op = "<" -> Bool(JsLt(a, b))
    [] op = ">" -> Bool(JsLt(b, a))
    [] op = "=" -> Bool(JsStrictEq(a, b))
    [] op = "<=" -> Bool(JsLe(a, b))
    [] op = ">=" -> Bool(JsLe(b, a))
    [] op = "!=" -> Bool(~JsLooseEq(a, b))
    [] OTHER -> ObjectString

(***************************************************************************)
(* Probe rules and the values of the effective configuration (any JSON     *)
(* value can arrive from the remote config).                               *)
(***************************************************************************)
ConfKeys == {"queue", "pm2"}

Rule(target, op, ifChanged, noHistory, noNotify, exclude, direct) ==
  [set |-> TRUE, target |-> target, op |-> op, ifChanged |-> ifChanged,
   noHistory |-> noHistory, noNotify |-> noNotify, exclude |-> exclude, direct |-> direct]

\* this._config.metric[key] is undefined
NoRule ==
  [set |-> FALSE, target |-> Undefined, op |-> "", ifChanged |-> FALSE,
   noHistory |-> FALSE, noNotify |-> FALSE, exclude |-> FALSE, direct |-> FALSE]

NoMetric == [k \in ConfKeys |-> NoRule]

CUndefined == [t |-> "undef"]
CNull == [t |-> "null"]
CBool(b) == [t |-> "bool", n |-> IF b THEN 1 ELSE 0]
CNum(n) == [t |-> "num", n |-> n]
CStr(s) == [t |-> "str", s |-> s]
CArr(a) == [t |-> "arr", a |-> a]
CObj(o) == [t |-> "obj", o |-> o]

\* if (config[key])
CTruthy(v) ==
  CASE v.t = "bool" -> v.n = 1
    [] v.t = "num" -> v.n # 0
    [] v.t = "str" -> v.s # ""
    [] v.t \in {"arr", "obj"} -> TRUE
    [] OTHER -> FALSE

IsArray(v) == v.t = "arr"

\* array.indexOf(x) !== -1
Includes(a, x) == \E i \in 1..Len(a) : a[i] = x

(***************************************************************************)
(* History store (Snapshot): last(id, key) answers the value of the last   *)
(* push for that process and metric.                                       *)
(***************************************************************************)
ProcIds == 0..2
MonitKeys == {"queue", "memory", "cpu", "pm2", "node"}
Slots == ProcIds \X MonitKeys

NoEntry == [set |-> FALSE, history |-> FALSE, v |-> Undefined, bad |-> FALSE]
EmptySnapshot == [sl \in Slots |-> NoEntry]

SnapshotLast(snap, id, key) ==
  IF snap[<<id, key>>].set THEN snap[<<id, key>>].v ELSE Undefined

SnapshotPush(snap, id, key, history, v, bad) ==
  [snap EXCEPT ![<<id, key>>] = [set |-> TRUE, history |-> history, v |-> v, bad |-> bad]]

(***************************************************************************)
(* isAppExcluded                                                           *)
(***************************************************************************)
\* an exclusion that forgets the tool's own name
isAppExcludedNoSelf(cfg, app) ==
  IsArray(cfg.appsExcluded) /\ Includes(cfg.appsExcluded.a, app)

isAppExcluded(cfg, app) ==
  app = SelfName \/ (IsArray(cfg.appsExcluded) /\ Includes(cfg.appsExcluded.a, app))

(***************************************************************************)
(* testProbes: the body of the PM2.list callback for one metric, one       *)
(* process, the whole list.  st = [snap, alerts, evals, log, threw].        *)
(***************************************************************************)
Entry(key, value, direct) == [key |-> key, value |-> value, direct |-> direct]

KeyIndex(ms, key) ==
  IF \E i \in 1..Len(ms) : ms[i].key = key
  THEN CHOOSE i \in 1..Len(ms) : ms[i].key = key
  ELSE 0

\* monit[key] = entry: an existing key keeps its place, a new one is appended
SetKey(ms, entry) ==
  IF KeyIndex(ms, entry.key) = 0 THEN Append(ms, entry)
  ELSE [ms EXCEPT ![KeyIndex(ms, entry.key)] = entry]

\* lines 258-275: axm_monitor plus the injected memory, cpu, pm2 and node
MonitOf(e) ==
  LET m0 == e.axm_monitor
      m1 == IF e.hasMonit
            THEN SetKey(SetKey(m0, Entry("memory", Num(e.memory \div MiB), FALSE)),
                        Entry("cpu", Num(e.cpu), FALSE))
            ELSE m0
      m2 == IF JsTruthy(e.pm2_version) THEN SetKey(m1, Entry("pm2", e.pm2_version, TRUE)) ELSE m1
      m3 == IF JsTruthy(e.node_version) THEN SetKey(m2, Entry("node", e.node_version, TRUE)) ELSE m2
  IN m3

\* a default rule that always keeps history
ProbeOfKeepAll(cfg, m) ==
  LET p == IF cfg.metric.t = "obj" /\ m.key \in ConfKeys THEN cfg.metric.o[m.key] ELSE NoRule
  IN IF p.set THEN p
     ELSE Rule(Undefined, "", FALSE, FALSE, TRUE, FALSE, m.direct)

\* lines 279-281
ProbeOf(cfg, m) ==
  LET p == IF cfg.metric.t = "obj" /\ m.key \in ConfKeys THEN cfg.metric.o[m.key] ELSE NoRule
  IN IF p.set THEN p
     ELSE Rule(Undefined, "", FALSE, m.direct, TRUE, FALSE, m.direct)

\* lines 290-291
ValueOf(probe, m) == IF ~probe.direct THEN ParseFloat(m.value) ELSE m.value

\* a threshold test that leaves direct probes out
BadOfNotDirect(probe, v) ==
  IF ~probe.direct /\ probe.op # "" /\ OpIn(probe.op) /\ probe.target.t # "undef"
  THEN OP(probe.op, v, probe.target)
  ELSE Undefined

\* lines 298-299
BadOf(probe, v) ==
  IF probe.op # "" /\ OpIn(probe.op) /\ probe.target.t # "undef"
  THEN OP(probe.op, v, probe.target)
  ELSE Undefined

\* a parse failure that is never noticed
ParseFailedNever(probe, v) == FALSE

\* lines 290-295: the value of a probe that is not direct is not a number
ParseFailed(probe, v) == ~probe.direct /\ v.t = "nan"

\* a test that does not look at the last recorded value
AlertTestRepeat(probe, bad, last, v) == probe.noNotify # TRUE /\ bad = Bool(TRUE)

\* line 302
AlertTest(probe, bad, last, v) ==
  probe.noNotify # TRUE /\ bad = Bool(TRUE) /\ (probe.ifChanged # TRUE \/ ~JsStrictEq(last, v))

TestMetric(cfg, st, e, m) ==
  LET probe == ProbeOf(cfg, m)
      v == ValueOf(probe, m)
      bad == BadOf(probe, v)
      last == SnapshotLast(st.snap, e.pm_id, m.key)
      alert == AlertTest(probe, bad, last, v)
      row == [app |-> e.name, pm_id |-> e.pm_id, key |-> m.key, v |-> v, prev |-> last,
              target |-> probe.target]
      eval == [app |-> e.name, pm_id |-> e.pm_id, key |-> m.key, raw |-> m.value, v |-> v, bad |-> bad,
               prev |-> last, row |-> alert, history |-> ~probe.noHistory]
  IN IF probe.exclude = TRUE THEN st
     ELSE IF ParseFailed(probe, v) THEN st
     ELSE [st EXCEPT !.snap = SnapshotPush(st.snap, e.pm_id, m.key, ~probe.noHistory, v,
                                          JsTruthy(bad)),
                     !.alerts = IF alert THEN Append(st.alerts, row) ELSE st.alerts,
                     !.evals = Append(st.evals, eval),
                     !.log = Append(st.log, "push")]

RECURSIVE TestKeys(_, _, _, _, _)
TestKeys(cfg, st, e, ms, i) ==
  IF i > Len(ms) THEN st
  ELSE TestKeys(cfg, TestMetric(cfg, st, e, ms[i]), e, ms, i + 1)

\* line 259 reads e.pm2_env["axm_monitor"]: a TypeError when e.pm2_env is not there
RECURSIVE TestList(_, _, _, _)
TestList(cfg, st, list, i) ==
  IF i > Len(list) \/ st.threw THEN st
  ELSE IF isAppExcluded(cfg, list[i].name) THEN TestList(cfg, st, list, i + 1)
  ELSE IF ~list[i].hasEnv THEN [st EXCEPT !.threw = TRUE]
  ELSE TestList(cfg, TestKeys(cfg, st, list[i], MonitOf(list[i]), 1), list, i + 1)

\* lines 248-249 and the store as the cycle finds it
NewCycle(snap) == [snap |-> snap, alerts |-> <<>>, evals |-> <<>>, log |-> <<>>, threw |-> FALSE]

(***************************************************************************)
(* Text and regular expressions.  Text is a sequence of characters; the    *)
(* patterns of the model are literals, so RegExp.test is a substring       *)
(* search, and "(" is the pattern new RegExp rejects.                      *)
(***************************************************************************)
Chars(s) ==
  CASE s = "a" -> <<"a">>
    [] s = "b" -> <<"b">>
    [] s = "ab" -> <<"a", "b">>
    [] s = "(" -> <<"(">>
    [] OTHER -> <<>>

\* JSON.stringify(data.data, undefined, 4) of a string payload
Stringify(s) == <<"\"">> \o Chars(s) \o <<"\"">>

\* new RegExp(e) throws
RegExpThrows(e) == e = "("

RegExp(e) == [source |-> e]

\* e.test(json)
Test(re, json) ==
  LET pat == Chars(re.source)
  IN \E i \in 0..(Len(json) - Len(pat)) :
       \A j \in 1..Len(pat) : json[i + j] = pat[j]

\* messageExcludeExps.map(e => new RegExp(e))
MapRegExp(a) == [i \in 1..Len(a) |-> RegExp(a[i])]

\* configChanged: the list is emptied first, then replaced unless a pattern throws
configChanged(cfg) ==
  IF IsArray(cfg.messageExcludeExps)
  THEN IF \E i \in 1..Len(cfg.messageExcludeExps.a) : RegExpThrows(cfg.messageExcludeExps.a[i])
       THEN [threw |-> TRUE, exps |-> <<>>]
       ELSE [threw |-> FALSE, exps |-> MapRegExp(cfg.messageExcludeExps.a)]
  ELSE [threw |-> FALSE, exps |-> <<>>]

(***************************************************************************)
(* fetchConfig: the response of the remote config, and its application.    *)
(***************************************************************************)
PayloadKeys == {CONFIG_KEYS[i] : i \in 1..Len(CONFIG_KEYS)} \cup {"mailTo"}

NoFields == [k \in PayloadKeys |-> CUndefined]

\* kind: "neterr" (fetch rejects), "badjson" (JSON.parse throws), "null" (JSON null),
\* "scalar" (a JSON number, string or boolean), "obj" (a JSON object with fields)
Response(kind, fields) == [kind |-> kind, fields |-> fields]

\* a mapping that applies every key the response defines, falsy values included
MapKeyDefined(cfg, fields, key) ==
  IF fields[key] # CUndefined THEN [cfg EXCEPT ![key] = fields[key]] ELSE cfg

\* if (config[key]) this._config[key] = config[key]
MapKey(cfg, fields, key) ==
  IF CTruthy(fields[key]) THEN [cfg EXCEPT ![key] = fields[key]] ELSE cfg

RECURSIVE MapKeys(_, _, _)
MapKeys(cfg, fields, i) ==
  IF i > Len(CONFIG_KEYS) THEN cfg
  ELSE MapKeys(MapKey(cfg, fields, CONFIG_KEYS[i]), fields, i + 1)

\* the body of fetchConfig once the response is there: [config, exps, failed]
fetchConfig(cfg, exps, resp) ==
  IF resp.kind \in {"neterr", "badjson", "null"}
  THEN [config |-> cfg, exps |-> exps, failed |-> TRUE]
  ELSE LET c == IF resp.kind = "obj" THEN MapKeys(cfg, resp.fields, 1) ELSE cfg
           cc == configChanged(c)
       IN [config |-> c, exps |-> cc.exps, failed |-> cc.threw]

(***************************************************************************)
(* State.                                                                  *)
(*   _config               the effective configuration                     *)
(*   _messageExcludeExps   the compiled exclusion patterns                 *)
(*   _holdTill             the hold window: [set, t], t in minutes         *)
(*   now                   the clock, in minutes                           *)
(*   snapshot              the history store                               *)
(*   go                    position of go(): new, fetching (awaiting the   *)
(*                         first fetchConfig), started, failed, exited     *)
(*   conn                  PM2.connect / launchBus: none, connecting,      *)
(*                         launching, up                                   *)
(*   bus                   the bus channels with a handler                 *)
(*   poll                  testProbes: the PM2.list queries in flight and  *)
(*                         the setTimeout timers pending                   *)
(*   smtp                  the mail transport: up (sendMail resolves) or   *)
(*                         down (sendMail rejects)                         *)
(*   fetching              fetchConfig calls awaiting their response       *)
(*   interval              the setInterval of fetchConfig is set           *)
(*   ev                    what the last step did (observation only)       *)
(*   cycle                 the last poll cycle: the list it got, its alert *)
(*                         rows, its evaluations, its calls in order,      *)
(*                         whether the hold window was active, and the     *)
(*                         values whose alert row the hold window muted    *)
(*                         and that were observed unchanged since          *)
(*                         (observation only)                              *)
(***************************************************************************)
VARIABLES _config, _messageExcludeExps, _holdTill, now, snapshot, go, conn, bus, poll,
          fetching, interval, smtp, ev, cycle

vars == <<_config, _messageExcludeExps, _holdTill, now, snapshot, go, conn, bus, poll,
          fetching, interval, smtp, ev, cycle>>

Ev(op) ==
  [op |-> op, app |-> "", event |-> "", manually |-> FALSE, data |-> "", p |-> "",
   notify |-> FALSE, send |-> 0, rejected |-> FALSE, attach |-> 0,
   failed |-> FALSE, resp |-> Response("none", NoFields)]

NoHold == [set |-> FALSE, t |-> 0]

\* testProbes has not run: no PM2.list in flight, no timer pending
NoPoll == [listing |-> 0, timer |-> 0]

NoCycle == [list |-> <<>>, alerts |-> <<>>, evals |-> <<>>, log |-> <<>>, threw |-> FALSE,
            held |-> FALSE, muted |-> {}]

\* the local configuration file, as the constructor leaves it (lines 59-68)
Construct(c) ==
  [c EXCEPT !.metricIntervalS = IF c.metricIntervalS.t \in {"undef", "null"}
                                THEN CNum(MERTIC_INTERVAL_S) ELSE @,
            !.metric = IF ~CTruthy(c.metric) THEN CObj(NoMetric) ELSE @]

LocalConfig(events, metric, exceptions, messages, messageExcludeExps, appsExcluded, url) ==
  [events |-> events, metric |-> metric, exceptions |-> exceptions, messages |-> messages,
   messageExcludeExps |-> messageExcludeExps, appsExcluded |-> appsExcluded,
   metricIntervalS |-> CUndefined, addLogs |-> CUndefined, mailTo |-> CStr("ops"),
   webConfig |-> [url |-> url, fetchIntervalM |-> 10]]

InitWith(configs) ==
  /\ _config \in {Construct(c) : c \in configs}
  /\ _messageExcludeExps = <<>>
  /\ _holdTill = NoHold
  /\ now = 0
  /\ snapshot = EmptySnapshot
  /\ go = "new"
  /\ conn = "none"
  /\ bus = {}
  /\ poll = NoPoll
  /\ fetching = 0
  /\ interval = FALSE
  /\ smtp = "up"
  /\ ev = Ev("new")
  /\ cycle = NoCycle

(***************************************************************************)
(* Alert gate: Health.mail (lines 232-245) and Mail.send.                  *)
(***************************************************************************)
\* Mail.send: the promise of transport.sendMail rejects when the transport is down
SendRejects == smtp = "down"

\* a gate that still holds at the minute of expiry
HeldInclusive == _holdTill.set /\ now <= _holdTill.t

\* this._holdTill != null && t < this._holdTill
Held == _holdTill.set /\ now < _holdTill.t

\* a gate that sends a second time when the first send is rejected
mailRetry(e) ==
  [e EXCEPT !.notify = TRUE,
            !.send = IF Held THEN 0 ELSE IF SendRejects THEN 2 ELSE 1,
            !.rejected = ~Held /\ SendRejects]

\* a gate that ignores the hold window
mailUngated(e) == [e EXCEPT !.notify = TRUE, !.send = 1, !.rejected = SendRejects]

\* this.mail(...): the call is recorded, whether it reached this._mail.send, and whether
\* the send was rejected (caught and logged, lines 242-244)
mail(e) ==
  [e EXCEPT !.notify = TRUE, !.send = IF Held THEN 0 ELSE 1, !.rejected = ~Held /\ SendRejects]

(***************************************************************************)
(* go(), lines 108-123 and 125, 181-229: configChanged, the first          *)
(* fetchConfig (awaited), then PM2.connect and the Pmx actions.            *)
(***************************************************************************)
Go ==
  /\ go = "new"
  /\ LET cc == configChanged(_config)
     IN /\ _messageExcludeExps' = cc.exps
        /\ IF cc.threw
           THEN /\ go' = "failed"
                /\ UNCHANGED <<conn, fetching>>
           ELSE IF CTruthy(_config.webConfig.url)
           THEN /\ go' = "fetching"
                /\ fetching' = 1
                /\ UNCHANGED conn
           ELSE /\ go' = "started"
                /\ conn' = "connecting"
                /\ UNCHANGED fetching
  /\ ev' = Ev("go")
  /\ UNCHANGED <<_config, _holdTill, now, snapshot, cycle, bus, poll, interval, smtp>>

\* a fetchConfig call gets its response (lines 79-93); the first one resumes go()
FetchDone(responses) ==
  /\ go \in {"fetching", "started"}
  /\ fetching > 0
  /\ \E resp \in responses :
       LET r == fetchConfig(_config, _messageExcludeExps, resp)
       IN /\ _config' = r.config
          /\ _messageExcludeExps' = r.exps
          /\ ev' = [Ev("fetch") EXCEPT !.failed = r.failed, !.resp = resp]
  /\ fetching' = fetching - 1
  /\ IF go = "fetching"
     THEN /\ go' = "started"
          /\ conn' = "connecting"
          /\ interval' = (_config.webConfig.fetchIntervalM > 0)
     ELSE UNCHANGED <<go, conn, interval>>
  /\ UNCHANGED <<_holdTill, now, snapshot, cycle, bus, poll, smtp>>

\* the setInterval callback (lines 118-122) starts another fetchConfig
IntervalFire ==
  /\ go = "started"
  /\ interval
  /\ fetching < MaxInFlight
  /\ fetching' = fetching + 1
  /\ ev' = Ev("interval")
  /\ UNCHANGED <<_config, _messageExcludeExps, _holdTill, now, snapshot, cycle, go, conn, bus, poll,
                 interval, smtp>>

\* an error that is logged and survived
ExitNever(op) ==
  /\ go' = go
  /\ ev' = Ev(op)
  /\ UNCHANGED <<_config, _messageExcludeExps, _holdTill, now, snapshot, cycle, conn, bus, poll,
                 fetching, interval, smtp>>

\* stopIfEx(ex) with an error: process.exit(1)
Exit(op) ==
  /\ go' = "exited"
  /\ ev' = Ev(op)
  /\ UNCHANGED <<_config, _messageExcludeExps, _holdTill, now, snapshot, cycle, conn, bus, poll,
                 fetching, interval, smtp>>

\* the PM2.connect callback (lines 125-129, 178): launchBus, then the first testProbes
ConnectCb ==
  /\ go = "started"
  /\ conn = "connecting"
  /\ \E ex \in BOOLEAN :
       IF ex THEN Exit("connect")
       ELSE /\ conn' = "launching"
            /\ poll' = [poll EXCEPT !.listing = @ + 1]
            /\ ev' = Ev("connect")
            /\ UNCHANGED <<_config, _messageExcludeExps, _holdTill, now, snapshot, cycle, go, bus,
                           fetching, interval, smtp>>

\* the PM2.launchBus callback (lines 128-175): the handlers are registered
LaunchBusCb ==
  /\ go = "started"
  /\ conn = "launching"
  /\ \E ex \in BOOLEAN :
       IF ex THEN Exit("launchBus")
       ELSE /\ conn' = "up"
            /\ bus' = {"process:event"}
                      \cup (IF CTruthy(_config.exceptions) THEN {"process:exception"} ELSE {})
                      \cup (IF CTruthy(_config.messages) THEN {"process:msg"} ELSE {})
            /\ ev' = Ev("launchBus")
            /\ UNCHANGED <<_config, _messageExcludeExps, _holdTill, now, snapshot, cycle, go, poll,
                           fetching, interval, smtp>>

(***************************************************************************)
(* Bus handlers (lines 131-175).                                           *)
(***************************************************************************)
Apps == {"app", "api", SelfName}
EventNames == {"exit", "restart"}
MsgData == {"a", "b"}

\* LOGS.filter(...): both log paths are on the payload
Attachments(cfg) == IF cfg.addLogs = CBool(TRUE) THEN 2 ELSE 0

\* a filter that takes an empty events list for "all events"
EventFilteredNonEmpty(cfg, event) ==
  IsArray(cfg.events) /\ Len(cfg.events.a) > 0 /\ ~Includes(cfg.events.a, event)

\* line 135: events is configured and the event name is not in it
EventFiltered(cfg, event) == IsArray(cfg.events) /\ ~Includes(cfg.events.a, event)

ProcessEvent ==
  /\ go = "started"
  /\ "process:event" \in bus
  /\ \E name \in Apps, event \in EventNames, manually \in BOOLEAN :
       LET e == [Ev("event") EXCEPT !.app = name, !.event = event, !.manually = manually]
       IN ev' = IF manually \/ isAppExcluded(_config, name) THEN e
                ELSE IF EventFiltered(_config, event) THEN e
                ELSE mail([e EXCEPT !.attach = Attachments(_config)])
  /\ UNCHANGED <<_config, _messageExcludeExps, _holdTill, now, snapshot, cycle, go, conn, bus, poll,
                 fetching, interval, smtp>>

\* an exception event on the bus: without a handler (line 147) it is dropped
ProcessException ==
  /\ go = "started"
  /\ conn = "up"
  /\ \E name \in Apps :
       LET e == [Ev("exception") EXCEPT !.app = name]
       IN ev' = IF "process:exception" \notin bus THEN e
                ELSE IF isAppExcluded(_config, name) THEN e
                ELSE mail(e)
  /\ UNCHANGED <<_config, _messageExcludeExps, _holdTill, now, snapshot, cycle, go, conn, bus, poll,
                 fetching, interval, smtp>>

\* a message event on the bus: without a handler (line 159) it is dropped
ProcessMsg ==
  /\ go = "started"
  /\ conn = "up"
  /\ \E name \in Apps, data \in MsgData :
       LET e == [Ev("msg") EXCEPT !.app = name, !.data = data]
           json == Stringify(data)
       IN ev' = IF "process:msg" \notin bus THEN e
                ELSE IF isAppExcluded(_config, name) THEN e
                ELSE IF \E i \in 1..Len(_messageExcludeExps) : Test(_messageExcludeExps[i], json)
                THEN e
                ELSE mail(e)
  /\ UNCHANGED <<_config, _messageExcludeExps, _holdTill, now, snapshot, cycle, go, conn, bus, poll,
                 fetching, interval, smtp>>

(***************************************************************************)
(* Pmx actions (lines 181-229).                                            *)
(***************************************************************************)
HoldParams == {"", "5", "x"}

\* parseInt(p) for the parameters of the model
ParseInt(p) ==
  CASE p = "5" -> Num(5)
    [] OTHER -> NaN

HoldMinutes(p) ==
  IF p # "" /\ ParseInt(p).t = "num" THEN ParseInt(p).n ELSE HOLD_PERIOD_M

Hold ==
  /\ go = "started"
  /\ \E p \in HoldParams :
       /\ _holdTill' = [set |-> TRUE, t |-> now + HoldMinutes(p)]
       /\ ev' = [Ev("hold") EXCEPT !.p = p]
  /\ UNCHANGED <<_config, _messageExcludeExps, now, snapshot, cycle, go, conn, bus, poll, fetching,
                 interval, smtp>>

Unhold ==
  /\ go = "started"
  /\ _holdTill' = NoHold
  /\ ev' = Ev("unhold")
  /\ UNCHANGED <<_config, _messageExcludeExps, now, snapshot, cycle, go, conn, bus, poll, fetching,
                 interval, smtp>>

\* the test mail calls this._mail.send itself, not this.mail
MailAction ==
  /\ go = "started"
  /\ ev' = [Ev("mail") EXCEPT !.send = 1, !.rejected = SendRejects]
  /\ UNCHANGED <<_config, _messageExcludeExps, _holdTill, now, snapshot, cycle, go, conn, bus, poll,
                 fetching, interval, smtp>>

\* this._snapshot.dump(): the history store flushes on demand
Dump ==
  /\ go = "started"
  /\ ev' = Ev("dump")
  /\ UNCHANGED <<_config, _messageExcludeExps, _holdTill, now, snapshot, cycle, go, conn, bus, poll,
                 fetching, interval, smtp>>

\* the debug action lists the processes into a file; a list error stops the program
Debug ==
  /\ go = "started"
  /\ \E ex \in BOOLEAN :
       IF ex THEN Exit("debug")
       ELSE /\ ev' = Ev("debug")
            /\ UNCHANGED <<_config, _messageExcludeExps, _holdTill, now, snapshot, cycle, go,
                           conn, bus, poll, fetching, interval, smtp>>

(***************************************************************************)
(* testProbes (lines 247-331).                                             *)
(***************************************************************************)
Desc(name, pm_id, axm_monitor, hasMonit, memory, cpu, pm2_version, node_version) ==
  [name |-> name, pm_id |-> pm_id, hasEnv |-> TRUE, axm_monitor |-> axm_monitor,
   hasMonit |-> hasMonit, memory |-> memory, cpu |-> cpu, pm2_version |-> pm2_version,
   node_version |-> node_version]

\* a descriptor without pm2_env (the case line 269 tests for)
NoEnv(name, pm_id) ==
  [Desc(name, pm_id, <<>>, FALSE, 0, 0, Undefined, Undefined) EXCEPT !.hasEnv = FALSE]

\* the calls after the loop, in order: the flush of line 314, then the aggregated alert
\* of lines 316-325 with the gate closed
DispatchMailFirst(log, alerts) ==
  (IF Len(alerts) > 0 THEN Append(log, "mail") ELSE log) \o <<"send">>

\* the calls after the loop, in order: the flush of line 314, then the aggregated alert
\* of lines 316-325 if a row was raised
Dispatch(log, alerts) ==
  IF Len(alerts) > 0 THEN Append(Append(log, "send"), "mail") ELSE Append(log, "send")

\* the values observed at a slot: those whose row was raised while the hold window was
\* active, and those muted before and observed again (or not observed) in this cycle
Muted(before, evals, held) ==
  {<<evals[i].pm_id, evals[i].key, evals[i].v>> : i \in
     {j \in 1..Len(evals) :
        \/ held /\ evals[j].row
        \/ <<evals[j].pm_id, evals[j].key, evals[j].v>> \in before}}
  \cup {p \in before : \A i \in 1..Len(evals) : ~(evals[i].pm_id = p[1] /\ evals[i].key = p[2])}

\* a list callback that leaves the history store alone while the hold window is active
ListCbHeldNoPush(lists) ==
  /\ go = "started"
  /\ poll.listing > 0
  /\ \E ex \in BOOLEAN :
       IF ex THEN Exit("list")
       ELSE /\ \E list \in lists :
                 LET st == TestList(_config, NewCycle(snapshot), list, 1)
                 IN /\ snapshot' = IF Held THEN snapshot ELSE st.snap
                    /\ cycle' = [list |-> list, alerts |-> st.alerts, evals |-> st.evals,
                                 log |-> Dispatch(st.log, st.alerts), threw |-> FALSE,
                                 held |-> Held, muted |-> Muted(cycle.muted, st.evals, Held)]
                    /\ ev' = IF Len(st.alerts) > 0 THEN mail(Ev("poll")) ELSE Ev("poll")
                    /\ poll' = [poll EXCEPT !.listing = @ - 1, !.timer = @ + 1]
                    /\ go' = go
            /\ UNCHANGED <<_config, _messageExcludeExps, _holdTill, now, conn, bus,
                           fetching, interval, smtp>>

\* the PM2.list callback: every process and metric, the history flush, the aggregated
\* alert, and the timer of the next cycle; an exception in the loop leaves the callback
\* (nothing catches it: the process ends, or an uncaughtException handler keeps it alive)
ListCb(lists) ==
  /\ go = "started"
  /\ poll.listing > 0
  /\ \E ex \in BOOLEAN :
       IF ex THEN Exit("list")
       ELSE /\ \E list \in lists :
                 LET st == TestList(_config, NewCycle(snapshot), list, 1)
                 IN /\ snapshot' = st.snap
                    /\ IF st.threw
                       THEN /\ cycle' = [list |-> list, alerts |-> st.alerts, evals |-> st.evals,
                                         log |-> st.log, threw |-> TRUE, held |-> Held,
                                         muted |-> Muted(cycle.muted, st.evals, Held)]
                            /\ ev' = Ev("throw")
                            /\ poll' = [poll EXCEPT !.listing = @ - 1]
                            /\ \E crash \in BOOLEAN : go' = IF crash THEN "exited" ELSE go
                       ELSE /\ cycle' = [list |-> list, alerts |-> st.alerts, evals |-> st.evals,
                                         log |-> Dispatch(st.log, st.alerts), threw |-> FALSE,
                                         held |-> Held,
                                         muted |-> Muted(cycle.muted, st.evals, Held)]
                            /\ ev' = IF Len(st.alerts) > 0 THEN mail(Ev("poll")) ELSE Ev("poll")
                            /\ poll' = [poll EXCEPT !.listing = @ - 1, !.timer = @ + 1]
                            /\ go' = go
            /\ UNCHANGED <<_config, _messageExcludeExps, _holdTill, now, conn, bus,
                           fetching, interval, smtp>>

\* a timer that stays armed after it fired
TimerFireRepeating ==
  /\ go = "started"
  /\ poll.timer > 0
  /\ poll' = [poll EXCEPT !.listing = @ + 1]
  /\ ev' = Ev("timer")
  /\ UNCHANGED <<_config, _messageExcludeExps, _holdTill, now, snapshot, cycle, go, conn, bus,
                 fetching, interval, smtp>>

\* the setTimeout callback (lines 327-329) calls testProbes: PM2.list is issued
TimerFire ==
  /\ go = "started"
  /\ poll.timer > 0
  /\ poll' = [poll EXCEPT !.timer = @ - 1, !.listing = @ + 1]
  /\ ev' = Ev("timer")
  /\ UNCHANGED <<_config, _messageExcludeExps, _holdTill, now, snapshot, cycle, go, conn, bus,
                 fetching, interval, smtp>>

\* the mail transport goes down or comes back (transport.sendMail of Mail.send)
SmtpFlip ==
  /\ smtp' = IF smtp = "up" THEN "down" ELSE "up"
  /\ ev' = Ev("smtp")
  /\ UNCHANGED <<_config, _messageExcludeExps, _holdTill, now, snapshot, cycle, go, conn, bus, poll,
                 fetching, interval>>

\* the clock advances by a minute
Tick ==
  /\ now < MaxTime
  /\ now' = now + 1
  /\ ev' = Ev("tick")
  /\ UNCHANGED <<_config, _messageExcludeExps, _holdTill, snapshot, cycle, go, conn, bus, poll,
                 fetching, interval, smtp>>

(***************************************************************************)
(* Poll cycles over the space of probe rules: one rule on the custom       *)
(* metric "queue" (or on the built-in "pm2"), one process, its value       *)
(* changing from cycle to cycle.                                           *)
(***************************************************************************)
RawValues == {Num(n) : n \in 1..MaxValue} \cup {Str("2x"), Str("v2")}
Targets == {Undefined, Num(2), Str("3"), Str("v2")}
Ops == OwnOps \cup {"", "==", "toString"}

\* every target, operator, ifChanged, noNotify and direct; noHistory and exclude on a few
ProbeRules ==
  {Rule(x[1], x[2], x[3], FALSE, x[4], FALSE, x[5]) :
     x \in Targets \X Ops \X BOOLEAN \X BOOLEAN \X BOOLEAN}
  \cup {Rule(Num(2), ">", FALSE, nh, FALSE, ex, d) : nh \in BOOLEAN, ex \in BOOLEAN, d \in BOOLEAN}

Pm2Rules == {Rule(Str("v2"), "=", ic, FALSE, FALSE, FALSE, d) : ic \in BOOLEAN, d \in BOOLEAN}

ProbeConfig(metric) ==
  LocalConfig(CUndefined, metric, CUndefined, CUndefined, CUndefined, CUndefined, CUndefined)

ProbeConfigs ==
  {ProbeConfig(CObj([NoMetric EXCEPT !["queue"] = r])) : r \in ProbeRules}
  \cup {ProbeConfig(CObj([NoMetric EXCEPT !["pm2"] = r])) : r \in Pm2Rules}
  \cup {ProbeConfig(CUndefined)}

ProbeLists ==
  {<<Desc("app", 0, <<Entry("queue", raw, FALSE)>>, FALSE, 0, 0, Undefined, Undefined)>> :
     raw \in RawValues}
  \cup {<<Desc("app", 0, <<Entry("queue", Num(MaxValue), FALSE)>>, TRUE, 2 * MiB, 1,
               Str("v2"), Str("v3"))>>}

InitProbe == InitWith(ProbeConfigs)

NextProbe ==
  \/ Go
  \/ ConnectCb
  \/ ListCb(ProbeLists)
  \/ TimerFire

SpecProbe == InitProbe /\ [][NextProbe]_vars

(***************************************************************************)
(* Properties of the poll cycle.                                           *)
(***************************************************************************)
\* the rule the configuration holds for a metric (set = FALSE: none)
ConfiguredRule(key) ==
  IF _config.metric.t = "obj" /\ key \in ConfKeys THEN _config.metric.o[key] ELSE NoRule

\* "bad is true": op is one of the six operators, target is set, and op(value, target)
ClaimBad(r, v) ==
  /\ r.op \in {"<", ">", "=", "<=", ">=", "!="}
  /\ r.target.t # "undef"
  /\ CASE r.op = "<" -> JsLt(v, r.target)
       [] r.op = ">" -> JsLt(r.target, v)
       [] r.op = "=" -> JsStrictEq(v, r.target)
       [] r.op = "<=" -> JsLt(v, r.target) \/ JsLooseEq(v, r.target)
       [] r.op = ">=" -> JsLt(r.target, v) \/ JsLooseEq(v, r.target)
       [] r.op = "!=" -> ~JsLooseEq(v, r.target)

\* the value the history store held for a slot
Recorded(snap, id, key) == IF snap[<<id, key>>].set THEN snap[<<id, key>>].v ELSE Undefined

PollStep == poll.listing > 0 /\ poll'.timer = poll.timer + 1

RowCount(c) == Cardinality({i \in 1..Len(c.evals) : c.evals[i].row})

\* C4: in a poll cycle an alert row is raised for an evaluated metric if and only if
\* noNotify is not true, bad is true (op is one of the six operators, target is set and
\* op(value, target) holds) and ifChanged is not true or the value differs from the value
\* the history store recorded before the cycle; the aggregated alert has exactly these rows.
C4_AlertIff ==
  [][PollStep =>
       /\ \A i \in 1..Len(cycle'.evals) :
            LET x == cycle'.evals[i]
                r == ConfiguredRule(x.key)
            IN x.row <=> /\ r.set
                         /\ r.noNotify # TRUE
                         /\ ClaimBad(r, x.v)
                         /\ (r.ifChanged # TRUE \/ Recorded(snapshot, x.pm_id, x.key) # x.v)
       /\ Len(cycle'.alerts) = RowCount(cycle')
       /\ \A k \in 1..Len(cycle'.alerts) :
            \E i \in 1..Len(cycle'.evals) :
              /\ cycle'.evals[i].row
              /\ cycle'.evals[i].pm_id = cycle'.alerts[k].pm_id
              /\ cycle'.evals[i].key = cycle'.alerts[k].key
              /\ cycle'.evals[i].v = cycle'.alerts[k].v]_vars

\* C4 witness: a cycle raised a row for one metric and none for another it evaluated
C4_Witness ==
  /\ ev.op = "poll"
  /\ \E i \in 1..Len(cycle.evals) : cycle.evals[i].row
  /\ \E i \in 1..Len(cycle.evals) : ~cycle.evals[i].row

\* C5: with ifChanged true, when two consecutive poll cycles observe the same bad value
\* for the same process and metric, the second cycle raises no alert row for it, and the
\* first raised one exactly when the rule notifies and the value was new to the history
\* store: one alert, not two.
C5_IfChangedOnce ==
  [][PollStep =>
       \A i \in 1..Len(cycle.evals), j \in 1..Len(cycle'.evals) :
         LET a == cycle.evals[i]
             b == cycle'.evals[j]
             r == ConfiguredRule(b.key)
         IN (/\ a.pm_id = b.pm_id
             /\ a.key = b.key
             /\ a.v = b.v
             /\ r.set
             /\ r.ifChanged
             /\ ClaimBad(r, b.v))
            => /\ ~b.row
               /\ (a.row <=> (r.noNotify # TRUE /\ a.prev # a.v))]_vars

\* C5 witness: the second of two cycles with the same bad value, the rule notifying
C5_Witness ==
  /\ ev.op = "poll"
  /\ \E j \in 1..Len(cycle.evals) :
       LET b == cycle.evals[j]
           r == ConfiguredRule(b.key)
       IN r.set /\ r.ifChanged /\ ~r.noNotify /\ ClaimBad(r, b.v) /\ b.prev = b.v /\ ~b.row

\* C10 as claimed: a probe rule with direct true never yields bad = true, and so neither
\* an alert row nor a history entry flagged bad.
C10_DirectNeverBad ==
  ev.op = "poll" =>
    \A i \in 1..Len(cycle.evals) :
      LET x == cycle.evals[i]
          r == ConfiguredRule(x.key)
      IN (r.set /\ r.direct) =>
           /\ x.bad # Bool(TRUE)
           /\ ~x.row
           /\ ~snapshot[<<x.pm_id, x.key>>].bad

\* C10 amended: a probe rule with direct true takes the metric value as it is (no numeric
\* parsing), and still compares it against target when op and target are set: bad is
\* true exactly when op(value, target) holds, the history entry is then flagged bad, and
\* the alert row is raised as for any other rule.
C10_DirectCompared ==
  ev.op = "poll" =>
    \A i \in 1..Len(cycle.evals) :
      LET x == cycle.evals[i]
          r == ConfiguredRule(x.key)
      IN (r.set /\ r.direct) =>
           /\ x.v = x.raw
           /\ (x.bad = Bool(TRUE)) <=> ClaimBad(r, x.raw)
           /\ ClaimBad(r, x.raw) => snapshot[<<x.pm_id, x.key>>].bad
           /\ x.row <=> (r.noNotify # TRUE /\ ClaimBad(r, x.raw)
                          /\ (r.ifChanged # TRUE \/ x.prev # x.raw))

\* C10 witness: a direct rule with op and target set raised an alert row
C10_Witness ==
  /\ ev.op = "poll"
  /\ \E i \in 1..Len(cycle.evals) :
       LET x == cycle.evals[i]
           r == ConfiguredRule(x.key)
       IN r.set /\ r.direct /\ x.bad = Bool(TRUE) /\ x.row /\ x.raw.t = "str"

(***************************************************************************)
(* The hold window over time: every operation that can raise an alert,     *)
(* the operator's actions and the clock, under one local configuration.    *)
(***************************************************************************)
AlertingRule == Rule(Num(2), ">", FALSE, FALSE, FALSE, FALSE, FALSE)

HoldConfigs ==
  {LocalConfig(CUndefined, CObj([NoMetric EXCEPT !["queue"] = AlertingRule]), CBool(TRUE),
               CBool(TRUE), CArr(<<"a">>), CUndefined, CUndefined)}

HoldLists ==
  {<<Desc("app", 0, <<Entry("queue", Num(v), FALSE)>>, FALSE, 0, 0, Undefined, Undefined)>> :
     v \in {1, MaxValue}}

InitHold == InitWith(HoldConfigs)

NextHold ==
  \/ Go
  \/ ConnectCb
  \/ LaunchBusCb
  \/ ListCb(HoldLists)
  \/ TimerFire
  \/ ProcessEvent
  \/ ProcessException
  \/ ProcessMsg
  \/ Hold
  \/ Unhold
  \/ MailAction
  \/ Tick

SpecHold == InitHold /\ [][NextHold]_vars

\* the hold window is set and the current time is before its expiry
HoldActive == _holdTill.set /\ _holdTill.t > now

\* C1: a notify call made while the hold window is active never invokes send, and one made
\* when it is not (never set, cleared by unhold, or expired) does; hold(5) holds for 5
\* minutes, so an alert 2 minutes later is suppressed and one 6 minutes later is sent.
C1_HoldGate ==
  /\ ev.notify => (ev.send = IF HoldActive THEN 0 ELSE 1)
  /\ (ev.op = "hold" /\ ev.p = "5") => _holdTill = [set |-> TRUE, t |-> now + 5]
  /\ (ev.op = "hold" /\ ev.p = "") => _holdTill = [set |-> TRUE, t |-> now + 30]
  /\ (ev.notify /\ _holdTill.set /\ now = _holdTill.t - 3) => ev.send = 0
  /\ (ev.notify /\ _holdTill.set /\ now = _holdTill.t + 1) => ev.send = 1
  /\ (ev.op = "unhold") => ~_holdTill.set

\* C1 witness: an alert raised one minute after the hold expired was sent
C1_Witness == ev.notify /\ _holdTill.set /\ now = _holdTill.t + 1 /\ ev.send = 1

\* C2 as claimed: while the hold window is active no operation invokes send, the test
\* mail included.
C2_NoSendWhileHeld == HoldActive => ev.send = 0

\* C2 amended: while the hold window is active no lifecycle, exception or message event and
\* no poll cycle invokes send; the operator's test mail invokes send whether or not the
\* window is active.
C2_OnlyTestMailWhileHeld ==
  /\ (HoldActive /\ ev.op # "mail") => ev.send = 0
  /\ ev.op = "mail" => ev.send = 1

\* C2 witness: a poll cycle raised alert rows during the hold and nothing was sent
C2_Witness == HoldActive /\ ev.op = "poll" /\ Len(cycle.alerts) > 0 /\ ev.notify /\ ev.send = 0

(***************************************************************************)
(* The program under a remote configuration: startup, config fetches, bus  *)
(* events, poll cycles and the operator's test mail, dump and debug (the   *)
(* hold window and the clock are exercised by SpecHold).                   *)
(***************************************************************************)
ChangedRule == Rule(Num(2), ">", TRUE, FALSE, FALSE, FALSE, FALSE)

Fields(f) == [k \in PayloadKeys |-> IF k \in DOMAIN f THEN f[k] ELSE CUndefined]

MainConfigs ==
  {LocalConfig(CUndefined, CObj([NoMetric EXCEPT !["queue"] = AlertingRule]), CUndefined,
               CBool(TRUE), CArr(<<"a">>), CUndefined, CStr("http://cfg"))}

MainResponses ==
  {Response("neterr", NoFields),
   Response("obj", Fields([appsExcluded |-> CArr(<<"app">>)])),
   Response("obj", Fields([events |-> CArr(<<>>)])),
   Response("obj", Fields([events |-> CArr(<<"exit">>), exceptions |-> CBool(TRUE)])),
   Response("obj", Fields([messageExcludeExps |-> CArr(<<"b", "(">>)])),
   Response("obj", Fields([metric |-> CObj([NoMetric EXCEPT !["queue"] = ChangedRule]),
                           messages |-> CBool(FALSE)]))}

MainLists ==
  {<<Desc("app", 0, <<Entry("queue", Num(MaxValue), FALSE)>>, FALSE, 0, 0, Undefined, Undefined),
     Desc(SelfName, 2, <<Entry("queue", Num(MaxValue), FALSE)>>, FALSE, 0, 0, Undefined, Undefined)>>,
   <<Desc("app", 0, <<Entry("queue", Num(1), FALSE)>>, FALSE, 0, 0, Undefined, Undefined)>>}

Init == InitWith(MainConfigs)

Next ==
  \/ Go
  \/ FetchDone(MainResponses)
  \/ IntervalFire
  \/ ConnectCb
  \/ LaunchBusCb
  \/ ListCb(MainLists)
  \/ TimerFire
  \/ ProcessEvent
  \/ ProcessException
  \/ ProcessMsg
  \/ MailAction
  \/ Dump
  \/ Debug

Spec == Init /\ [][Next]_vars

\* the process is the tool itself or is named by appsExcluded
ExcludedNow(app) ==
  \/ app = "pm2-health"
  \/ /\ _config.appsExcluded.t = "arr"
     /\ app \in {_config.appsExcluded.a[i] : i \in 1..Len(_config.appsExcluded.a)}

\* C3: for a process that is the tool itself or is in appsExcluded when it is observed, no
\* lifecycle, exception or message alert is raised and a poll cycle evaluates no metric
\* and raises no alert row for it.
C3_ExcludedSilent ==
  /\ (ev.op \in {"event", "exception", "msg"} /\ ExcludedNow(ev.app)) => ~ev.notify /\ ev.send = 0
  /\ ev.op = "poll" =>
       /\ \A k \in 1..Len(cycle.alerts) : ~ExcludedNow(cycle.alerts[k].app)
       /\ \A i \in 1..Len(cycle.evals) : ~ExcludedNow(cycle.evals[i].app)

\* C3 witness: a lifecycle event the events setting lets through, of a process the remote
\* configuration excluded, raised no alert
C3_Witness ==
  /\ ev.op = "event"
  /\ ~ev.manually
  /\ ev.app = "app"
  /\ ExcludedNow("app")
  /\ _config.events.t # "arr"
  /\ ~ev.notify

\* the event name is one of the configured events
EventListed == ev.event \in {_config.events.a[i] : i \in 1..Len(_config.events.a)}

\* C9 as claimed: a lifecycle event, not manually triggered, of a process that is not
\* excluded raises an alert whenever events is absent or empty, and when events is not
\* empty exactly when the event name is in it.
C9_EmptyMeansAll ==
  (ev.op = "event" /\ ~ev.manually /\ ~ExcludedNow(ev.app)) =>
     IF _config.events.t # "arr" \/ Len(_config.events.a) = 0
     THEN ev.notify
     ELSE ev.notify <=> EventListed

\* C9 amended: such an event raises an alert whenever events is absent (not a list); when
\* events is a list, empty or not, exactly when the event name is in it, so an empty list
\* lets no lifecycle event through.
C9_ListedOrAbsent ==
  (ev.op = "event" /\ ~ev.manually /\ ~ExcludedNow(ev.app)) =>
     IF _config.events.t # "arr"
     THEN ev.notify
     ELSE ev.notify <=> EventListed

\* C9 witness: events is the empty list and a lifecycle event raised no alert
C9_Witness ==
  /\ ev.op = "event"
  /\ ~ev.manually
  /\ ~ExcludedNow(ev.app)
  /\ _config.events.t = "arr"
  /\ Len(_config.events.a) = 0
  /\ ~ev.notify

(***************************************************************************)
(* fetchConfig over the space of responses: every response with at most    *)
(* MaxPayloadKeys keys, each key with falsy and truthy values, applied to  *)
(* every local configuration of ConfigConfigs (sequences of fetches are in *)
(* Spec).                                                                  *)
(***************************************************************************)
Candidates ==
  [events |-> {CArr(<<>>), CArr(<<"restart">>)},
   metric |-> {CNum(0), CObj([NoMetric EXCEPT !["queue"] = ChangedRule])},
   exceptions |-> {CBool(FALSE), CBool(TRUE)},
   messages |-> {CBool(FALSE), CBool(TRUE)},
   messageExcludeExps |-> {CStr(""), CArr(<<"b">>), CArr(<<"a", "(">>)},
   appsExcluded |-> {CNull, CArr(<<"app">>)},
   metricIntervalS |-> {CNum(0), CNum(5)},
   addLogs |-> {CBool(FALSE), CBool(TRUE)},
   mailTo |-> {CStr("else")}]

RECURSIVE FieldsOver(_)
FieldsOver(K) ==
  IF K = {} THEN {NoFields}
  ELSE LET k == CHOOSE x \in K : TRUE
       IN {[f EXCEPT ![k] = v] : f \in FieldsOver(K \ {k}), v \in Candidates[k]}

ConfigResponses ==
  {Response(kind, NoFields) : kind \in {"neterr", "badjson", "null", "scalar"}}
  \cup UNION {{Response("obj", f) : f \in FieldsOver(K)} :
                K \in {S \in SUBSET PayloadKeys : Cardinality(S) <= MaxPayloadKeys}}

ConfigConfigs ==
  {LocalConfig(x[1], x[2], x[3], CUndefined, x[4], x[5], CStr("http://cfg")) :
     x \in {CUndefined, CArr(<<"exit">>)}
           \X {CUndefined, CObj([NoMetric EXCEPT !["queue"] = AlertingRule])}
           \X {CUndefined, CBool(TRUE)}
           \X {CUndefined, CArr(<<"a">>)}
           \X {CUndefined, CArr(<<"api">>)}}

InitConfig == InitWith(ConfigConfigs)

\* the first fetchConfig of go(), awaited before anything else is started
NextConfig ==
  \/ Go
  \/ FetchDone(ConfigResponses)

SpecConfig == InitConfig /\ [][NextConfig]_vars

AllFields == PayloadKeys \cup {"webConfig"}

\* the response carries no value for the key, or a falsy one
FalsyOrAbsent(resp, key) ==
  \/ resp.kind # "obj"
  \/ key \notin PayloadKeys
  \/ resp.fields[key] \in {CUndefined, CNull, CBool(FALSE), CNum(0), CStr("")}

Whitelist == {"events", "metric", "exceptions", "messages", "messageExcludeExps", "appsExcluded",
              "metricIntervalS", "addLogs"}

\* C6: a fetchConfig leaves unchanged every field of the effective configuration whose key
\* is absent or falsy in the response or is outside the whitelist; the fields it changes
\* are whitelisted keys the response holds a truthy value for, and they take that value.
C6_PartialOverride ==
  [][ev'.op = "fetch" =>
       \A key \in AllFields :
         IF key \notin Whitelist \/ FalsyOrAbsent(ev'.resp, key)
         THEN _config'[key] = _config[key]
         ELSE _config'[key] = ev'.resp.fields[key]]_vars

\* C6 witness: a response with a truthy key and a falsy key was applied: the first took
\* the value, the second kept a different value it had before
C6_Witness ==
  /\ ev.op = "fetch"
  /\ ev.resp.kind = "obj"
  /\ ~ev.failed
  /\ \E k1 \in Whitelist, k2 \in Whitelist :
       /\ ~FalsyOrAbsent(ev.resp, k1)
       /\ _config[k1] = ev.resp.fields[k1]
       /\ ev.resp.fields[k2] # CUndefined
       /\ FalsyOrAbsent(ev.resp, k2)
       /\ CTruthy(_config[k2])

\* C7: whenever fetchConfig ends in its failure path, the effective configuration and the
\* compiled exclusion patterns are what they were before the fetch.
C7_NoPartialApply ==
  [][(ev'.op = "fetch" /\ ev'.failed) =>
       /\ _config' = _config
       /\ _messageExcludeExps' = _messageExcludeExps]_vars

\* the element-by-element compilation of the configured pattern strings
Compiled ==
  IF _config.messageExcludeExps.t = "arr"
  THEN [i \in 1..Len(_config.messageExcludeExps.a) |->
          [source |-> _config.messageExcludeExps.a[i]]]
  ELSE <<>>

\* C8: after startup the compiled exclusion pattern list is the element-by-element
\* compilation of the messageExcludeExps strings of the effective configuration.
C8_NeverStale == go = "started" => _messageExcludeExps = Compiled

(***************************************************************************)
(* Whole poll cycles: lists of one or two processes, metrics that do not   *)
(* parse, injected built-ins, a descriptor without pm2_env, under a rule   *)
(* on the custom metric "queue" or none.                                   *)
(***************************************************************************)
DirectRule == Rule(Str("v2"), "=", FALSE, FALSE, FALSE, FALSE, TRUE)
ExcludeRule == Rule(Num(2), ">", FALSE, FALSE, FALSE, TRUE, FALSE)

CycleConfigs ==
  {ProbeConfig(CObj([NoMetric EXCEPT !["queue"] = r])) :
     r \in {AlertingRule, ChangedRule, DirectRule, ExcludeRule}}
  \cup {ProbeConfig(CUndefined)}

CycleValues == {Num(1), Num(MaxValue), Str("v2")}

AppDescs ==
  {Desc("app", 0, <<Entry("queue", raw, FALSE)>>, FALSE, 0, 0, Undefined, Undefined) :
     raw \in CycleValues}
  \cup {Desc("app", 0, <<Entry("queue", raw, FALSE)>>, TRUE, 2 * MiB, 1, Str("v2"), Undefined) :
          raw \in {Num(MaxValue), Str("v2")}}

ApiDescs ==
  {Desc("api", 1, <<Entry("queue", raw, FALSE)>>, FALSE, 0, 0, Undefined, Undefined) :
     raw \in CycleValues}
  \cup {NoEnv("api", 1), NoEnv(SelfName, 2)}

CycleLists ==
  {<<a>> : a \in AppDescs}
  \cup {<<a, b>> : a \in AppDescs, b \in ApiDescs}
  \cup {<<b, a>> : a \in AppDescs, b \in {NoEnv("api", 1), NoEnv(SelfName, 2)}}

InitCycle == InitWith(CycleConfigs)

NextCycle ==
  \/ Go
  \/ ConnectCb
  \/ ListCb(CycleLists)
  \/ TimerFire

SpecCycle == InitCycle /\ [][NextCycle]_vars

\* the metrics the claim expects on a process: the custom ones, memory and cpu when the
\* process has monitor stats, the supervisor and runtime versions when present
ClaimMonit(e) ==
  e.axm_monitor
  \o (IF e.hasMonit
      THEN <<[key |-> "memory", value |-> Num(e.memory \div 1048576), direct |-> FALSE],
             [key |-> "cpu", value |-> Num(e.cpu), direct |-> FALSE]>>
      ELSE <<>>)
  \o (IF e.pm2_version.t = "str" THEN <<[key |-> "pm2", value |-> e.pm2_version, direct |-> TRUE]>>
      ELSE <<>>)
  \o (IF e.node_version.t = "str" THEN <<[key |-> "node", value |-> e.node_version, direct |-> TRUE]>>
      ELSE <<>>)

\* the rule in force for a metric is direct
ClaimDirect(m) == IF ConfiguredRule(m.key).set THEN ConfiguredRule(m.key).direct ELSE m.direct

\* the value has no numeric prefix
NotNumeric(v) == v.t = "str" /\ v.s \in {"v2", "v3"}

\* the cycle evaluated the metric of the process
Evaluated(c, e, m) ==
  \E i \in 1..Len(c.evals) :
    c.evals[i].pm_id = e.pm_id /\ c.evals[i].key = m.key /\ c.evals[i].raw = m.value

SendCount(c) == Cardinality({i \in 1..Len(c.log) : c.log[i] = "send"})

\* C11: in a poll cycle that no exception cuts short, a metric whose rule is not direct and
\* whose value fails numeric parsing is skipped: it is not evaluated, raises no alert row
\* and its history entry stays as it was; every other metric of every process that is not
\* excluded is evaluated, the history store is flushed once and the next cycle is
\* scheduled.
C11_ParseFailureSkipped ==
  [][ev'.op = "poll" =>
       /\ \A i \in 1..Len(cycle'.list) :
            LET e == cycle'.list[i]
            IN ~ExcludedNow(e.name) =>
                 \A k \in 1..Len(ClaimMonit(e)) :
                   LET m == ClaimMonit(e)[k]
                       r == ConfiguredRule(m.key)
                   IN IF r.set /\ r.exclude THEN ~Evaluated(cycle', e, m)
                      ELSE IF ~ClaimDirect(m) /\ NotNumeric(m.value)
                      THEN /\ ~Evaluated(cycle', e, m)
                           /\ \A j \in 1..Len(cycle'.alerts) :
                                ~(cycle'.alerts[j].pm_id = e.pm_id /\ cycle'.alerts[j].key = m.key)
                           /\ snapshot'[<<e.pm_id, m.key>>] = snapshot[<<e.pm_id, m.key>>]
                      ELSE Evaluated(cycle', e, m)
       /\ SendCount(cycle') = 1
       /\ poll'.timer = poll.timer + 1]_vars

\* C11 witness: a cycle skipped the unparsable "queue" of the first process, evaluated its
\* memory and the "queue" of the second process, flushed and set the timer
C11_Witness ==
  /\ ev.op = "poll"
  /\ Len(cycle.list) = 2
  /\ Len(cycle.list[1].axm_monitor) = 1
  /\ cycle.list[1].axm_monitor[1].value = Str("v2")
  /\ ~ClaimDirect(cycle.list[1].axm_monitor[1])
  /\ ~ConfiguredRule("queue").exclude
  /\ \A i \in 1..Len(cycle.evals) : ~(cycle.evals[i].pm_id = 0 /\ cycle.evals[i].key = "queue")
  /\ \E i \in 1..Len(cycle.evals) : cycle.evals[i].pm_id = 0 /\ cycle.evals[i].key = "memory"
  /\ \E i \in 1..Len(cycle.evals) : cycle.evals[i].pm_id = 1 /\ cycle.evals[i].key = "queue"
  /\ SendCount(cycle) = 1
  /\ poll.timer = 1

(***************************************************************************)
(* Properties of the schedule of poll cycles.                              *)
(***************************************************************************)
\* C12: at most one poll cycle is in flight (a list query awaited or a timer pending) at
\* any time; a list query is issued only by the connect callback, once, before any cycle,
\* or by the firing of the one pending timer, and a timer is set only by a list callback
\* that went through the whole list, under every interleaving with config fetches, bus
\* events and operator actions.
C12_OneCycleInFlight ==
  /\ [](poll.listing + poll.timer <= 1)
  /\ [][/\ poll'.listing > poll.listing =>
             \/ ev'.op = "timer" /\ poll.timer = 1 /\ poll'.timer = 0 /\ poll'.listing = 1
             \/ ev'.op = "connect" /\ poll = NoPoll /\ cycle = NoCycle /\ poll'.listing = 1
        /\ poll'.timer > poll.timer =>
             /\ ev'.op = "poll"
             /\ poll.listing = 1
             /\ poll'.listing = 0
             /\ poll'.timer = 1
             /\ ~cycle'.threw]_vars

\* C12 witness: the timer of a completed cycle fired and the next list query is awaited
\* while a config fetch is in flight and the bus handlers are registered
C12_Witness ==
  /\ ev.op = "timer"
  /\ poll = [listing |-> 1, timer |-> 0]
  /\ Len(cycle.evals) > 0
  /\ fetching > 0
  /\ conn = "up"

\* C13 as claimed: every poll cycle whose list query succeeds sets the timer of the next
\* cycle, whatever happens while the list is gone through.
C13_AlwaysReschedules ==
  [][(poll.listing > 0 /\ ev'.op \in {"poll", "throw"}) => poll'.timer = poll.timer + 1]_vars

MailCount(c) == Cardinality({i \in 1..Len(c.log) : c.log[i] = "mail"})

PushCount(c) == Cardinality({i \in 1..Len(c.log) : c.log[i] = "push"})

\* no push after the flush, no push and no flush after the alert
LogOrdered(c) ==
  \A i \in 1..Len(c.log), j \in 1..Len(c.log) :
    i < j => /\ ~(c.log[i] = "send" /\ c.log[j] = "push")
             /\ ~(c.log[i] = "mail" /\ c.log[j] \in {"push", "send"})

\* C14: within a poll cycle every push precedes the flush and the flush precedes the alert
\* dispatch; a cycle that goes through the whole list pushes once per evaluated metric,
\* flushes exactly once, and calls the alert gate exactly once, with one row per alert row
\* raised, if a row was raised, and not at all otherwise.
C14_EvaluateFlushAlert ==
  [][ev'.op \in {"poll", "throw"} =>
       /\ LogOrdered(cycle')
       /\ PushCount(cycle') = Len(cycle'.evals)
       /\ ev'.op = "poll" =>
            /\ SendCount(cycle') = 1
            /\ MailCount(cycle') = IF RowCount(cycle') > 0 THEN 1 ELSE 0
            /\ ev'.notify <=> RowCount(cycle') > 0
            /\ Len(cycle'.alerts) = RowCount(cycle')
            /\ Len(cycle'.log) = Len(cycle'.evals) + 1 + MailCount(cycle')
            /\ cycle'.log[Len(cycle'.evals) + 1] = "send"]_vars

\* C14 witness: a cycle evaluated three metrics of two processes, raised two rows, flushed
\* and then dispatched one alert
C14_Witness ==
  /\ ev.op = "poll"
  /\ ev.notify
  /\ Len(cycle.evals) >= 3
  /\ Len(cycle.alerts) = 2
  /\ cycle.alerts[1].pm_id # cycle.alerts[2].pm_id
  /\ cycle.log[Len(cycle.log) - 1] = "send"
  /\ cycle.log[Len(cycle.log)] = "mail"

(***************************************************************************)
(* Progress: every callback the runtime has pending is eventually run,     *)
(* except the response of a config fetch, which may never come (no         *)
(* timeout is set on the fetch).                                           *)
(***************************************************************************)
SpecLive ==
  /\ Init
  /\ [][Next]_vars
  /\ WF_vars(Go)
  /\ WF_vars(ConnectCb)
  /\ WF_vars(LaunchBusCb)
  /\ WF_vars(ListCb(MainLists))
  /\ WF_vars(TimerFire)

\* C15 as claimed: whether or not a config fetch ever completes, startup goes on: the
\* supervisor connection is issued and the operator actions are registered, also when the
\* fetch that hangs is the first one.
C15_StartsDespiteHang == <>(go = "started")

(***************************************************************************)
(* The alert gate over a mail transport that goes down and comes back:     *)
(* bus events, poll cycles, the hold window and the test mail.             *)
(***************************************************************************)
InitMail == InitWith(HoldConfigs)

NextMail ==
  \/ Go
  \/ ConnectCb
  \/ LaunchBusCb
  \/ ListCb(HoldLists)
  \/ TimerFire
  \/ ProcessEvent
  \/ ProcessException
  \/ ProcessMsg
  \/ Hold
  \/ Unhold
  \/ MailAction
  \/ SmtpFlip

SpecMail == InitMail /\ [][NextMail]_vars

\* C16: a notify call invokes send at most once, also when the send fails; the failure
\* stays in the gate: the handler or poll cycle that called notify ends as it does after
\* a successful send (the program keeps running, configuration, hold window and bus
\* handlers are untouched, a poll cycle has pushed its values and set the timer of the next
\* cycle), so later events and cycles are processed in the same way.
C16_SendFailureContained ==
  /\ [](ev.notify => ev.send <= 1)
  /\ [][(ev'.notify /\ ev'.rejected) =>
          /\ ev'.send = 1
          /\ go' = "started"
          /\ UNCHANGED <<_config, _messageExcludeExps, _holdTill, conn, bus, fetching, interval>>
          /\ IF ev'.op = "poll"
             THEN /\ poll' = [listing |-> 0, timer |-> 1]
                  /\ ~cycle'.threw
                  /\ MailCount(cycle') = 1
                  /\ \A i \in 1..Len(cycle'.evals) :
                       snapshot'[<<cycle'.evals[i].pm_id, cycle'.evals[i].key>>].v = cycle'.evals[i].v
             ELSE UNCHANGED <<poll, snapshot, cycle>>]_vars

\* C16 witness: the send of a poll cycle's alert was rejected, once, and the timer of the
\* next cycle is set
C16_Witness ==
  /\ ev.op = "poll"
  /\ ev.notify
  /\ ev.send = 1
  /\ ev.rejected
  /\ smtp = "down"
  /\ poll.timer = 1
  /\ go = "started"

\* the injected metrics that are direct: the supervisor and the runtime version
DirectBuiltIns == {"pm2", "node"}

\* C17: a metric without a configured rule that a cycle evaluates never raises an alert
\* row, whatever its value: its threshold test is left undefined; it is taken as it is
\* when it is a direct built-in and parsed as a number otherwise, and its push keeps
\* history if and only if it is not a direct built-in.
C17_DefaultRule ==
  ev.op \in {"poll", "throw"} =>
    \A i \in 1..Len(cycle.evals) :
      LET x == cycle.evals[i]
      IN ~ConfiguredRule(x.key).set =>
           /\ ~x.row
           /\ \A k \in 1..Len(cycle.alerts) :
                ~(cycle.alerts[k].pm_id = x.pm_id /\ cycle.alerts[k].key = x.key)
           /\ x.bad = Undefined
           /\ x.history <=> x.key \notin DirectBuiltIns
           /\ snapshot[<<x.pm_id, x.key>>].history <=> x.key \notin DirectBuiltIns
           /\ IF x.key \in DirectBuiltIns THEN x.v = x.raw ELSE x.v.t = "num"

\* C17 witness: a cycle under a configuration without rules evaluated a custom metric and
\* the injected memory with history kept, and the supervisor version without
C17_Witness ==
  /\ ev.op = "poll"
  /\ ~ConfiguredRule("queue").set
  /\ \E i \in 1..Len(cycle.evals) :
       cycle.evals[i].key = "queue" /\ cycle.evals[i].history /\ cycle.evals[i].v = Num(MaxValue)
  /\ \E i \in 1..Len(cycle.evals) : cycle.evals[i].key = "memory" /\ cycle.evals[i].history
  /\ \E i \in 1..Len(cycle.evals) :
       cycle.evals[i].key = "pm2" /\ ~cycle.evals[i].history /\ cycle.evals[i].v = Str("v2")
  /\ Len(cycle.alerts) = 0

\* C18: when the list query of a poll cycle answers with an error the program exits: that
\* step pushes nothing, flushes nothing and dispatches no alert, and after the exit
\* nothing is pushed, flushed or sent and no list query or timer is ever started again.
C18_ListErrorFatal ==
  [][/\ ev'.op = "list" =>
          /\ go' = "exited"
          /\ snapshot' = snapshot
          /\ cycle' = cycle
          /\ ~ev'.notify
          /\ ev'.send = 0
          /\ poll'.timer = 0
     /\ go = "exited" =>
          /\ go' = "exited"
          /\ UNCHANGED <<poll, snapshot, cycle>>
          /\ ev'.send = 0]_vars

\* C18 witness: after a completed cycle the next list query answered with an error and
\* the program has exited with no timer pending
C18_Witness ==
  /\ ev.op = "list"
  /\ go = "exited"
  /\ Len(cycle.evals) > 0
  /\ SendCount(cycle) = 1
  /\ poll.timer = 0

(***************************************************************************)
(* Properties of the exception and message channels.                       *)
(***************************************************************************)
\* a compiled exclusion pattern matches the message payload
MsgExcluded == \E i \in 1..Len(_messageExcludeExps) : _messageExcludeExps[i].source = ev.data

\* C19 as claimed: once the bus is launched, an exception event of a process that is not
\* excluded raises an alert if and only if exceptions is true in the effective
\* configuration when it arrives, and a message event of such a process that matches no
\* exclusion pattern if and only if messages is true, also when a remote configuration
\* turned the flag on after startup.
C19_FlagGatesChannel ==
  /\ (ev.op = "exception" /\ ~ExcludedNow(ev.app)) =>
       (ev.notify <=> _config.exceptions = CBool(TRUE))
  /\ (ev.op = "msg" /\ ~ExcludedNow(ev.app) /\ ~MsgExcluded) =>
       (ev.notify <=> _config.messages = CBool(TRUE))

(***************************************************************************)
(* Poll cycles under a rule with ifChanged while the operator sets and     *)
(* clears the hold window and the clock advances.                          *)
(***************************************************************************)
HeldConfigs ==
  {LocalConfig(CUndefined, CObj([NoMetric EXCEPT !["queue"] = ChangedRule]), CUndefined,
               CUndefined, CUndefined, CUndefined, CUndefined)}

InitHeld == InitWith(HeldConfigs)

NextHeld ==
  \/ Go
  \/ ConnectCb
  \/ ListCb(HoldLists)
  \/ TimerFire
  \/ Hold
  \/ Unhold
  \/ Tick

SpecHeld == InitHeld /\ [][NextHeld]_vars

\* C20: a poll cycle records every value it evaluates in the history store whether or not
\* the hold window is active; so under a rule with ifChanged, a bad value whose alert row
\* was raised while the hold window was active, and that every cycle since has observed
\* unchanged, raises no alert row in this cycle either: a send of this cycle, if any, is
\* caused by another value, also after the hold has expired or been cleared.
C20_MutedStaysSilent ==
  [][ev'.op = "poll" =>
       /\ \A i \in 1..Len(cycle'.evals) :
            LET x == cycle'.evals[i]
            IN /\ snapshot'[<<x.pm_id, x.key>>].set
               /\ snapshot'[<<x.pm_id, x.key>>].v = x.v
       /\ \A i \in 1..Len(cycle'.evals) :
            LET x == cycle'.evals[i]
                r == ConfiguredRule(x.key)
            IN (r.set /\ r.ifChanged = TRUE /\ <<x.pm_id, x.key, x.v>> \in cycle.muted) =>
                 /\ ~x.row
                 /\ \A k \in 1..Len(cycle'.alerts) :
                      ~(cycle'.alerts[k].pm_id = x.pm_id /\ cycle'.alerts[k].key = x.key)
       /\ ev'.send = 1 =>
            \E k \in 1..Len(cycle'.alerts) :
              <<cycle'.alerts[k].pm_id, cycle'.alerts[k].key, cycle'.alerts[k].v>> \notin cycle.muted]_vars

\* C20 witness: the hold window is over (expired or cleared), and a cycle has just
\* observed, unchanged, the bad value whose row was raised during the hold: no row, no send
C20_Witness ==
  /\ ev.op = "poll"
  /\ ~HoldActive
  /\ ~cycle.held
  /\ \E i \in 1..Len(cycle.evals) :
       LET x == cycle.evals[i]
       IN /\ <<x.pm_id, x.key, x.v>> \in cycle.muted
          /\ x.bad = Bool(TRUE)
          /\ x.prev = x.v
          /\ ~x.row
  /\ ~ev.notify
  /\ ev.send = 0

====
